---- MODULE Spec2Model ----
(***************************************************************************)
(* Battery simulator: the Battery state machine (battery.py), the         *)
(* LowestToHighest charging strategy (charging_strategy.py) and the Site   *)
(* aggregate (site.py).                                                    *)
(*                                                                         *)
(* Energy amounts are Python decimal.Decimal values computed in the        *)
(* default context: every arithmetic result is the exact result rounded    *)
(* half-even to 28 significant digits.  A non-negative Decimal is modelled *)
(* as a fixed-point number <<ip, f1, f2, f3, f4>>: an integer part and 28  *)
(* fractional digits held in four limbs of 7 digits.  Every value the      *)
(* model computes is below 10^6 and is either 0, exact, or at least 1/10,  *)
(* so it has at most 28 fractional digits and rounding to 28 significant   *)
(* digits only ever touches the last limb.                                 *)
(***************************************************************************)
EXTENDS Integers, Sequences, FiniteSets, TLC

VARIABLES
    batteries,  \* the Battery objects, in list order
    created,    \* the same batteries as their constructors left them
    call,       \* the last call made: its name, target, the target's state
                \* before the call, and the exception it raised
    result      \* index of the battery the last strategy call returned

vars == <<batteries, created, call, result>>

(***************************************************************************)
(* Bounds of the model                                                     *)
(***************************************************************************)
\* entries increment() may append to the histories of a battery run alone
MaxTicks == 5

\* entries increment() may append, in total, to the histories of a site
MaxSiteTicks == 2

\* batteries of a site
MaxBatteries == 2

(***************************************************************************)
(* decimal.Decimal arithmetic, default context                             *)
(***************************************************************************)
\* Domain of DDivInt and DRound: values below 10^6 that are exact or at least
\* 1/10 (a smaller inexact quotient would need a 29th fractional digit).

\* digits per limb of the fixed-point representation
LimbDigits == 7

RECURSIVE Pow10(_)
Pow10(d) == IF d = 0 THEN 1 ELSE 10 * Pow10(d - 1)

Base == Pow10(LimbDigits)

RECURSIVE NumDigits(_)
NumDigits(n) == IF n = 0 THEN 0 ELSE 1 + NumDigits(n \div 10)

DZero == <<0, 0, 0, 0, 0>>

\* Decimal(n) for a non-negative int n
FromInt(n) == <<n, 0, 0, 0, 0>>

\* exact sum of two fixed-point numbers
AddRaw(a, b) ==
    LET s5 == a[5] + b[5]
        s4 == a[4] + b[4] + (s5 \div Base)
        s3 == a[3] + b[3] + (s4 \div Base)
        s2 == a[2] + b[2] + (s3 \div Base)
        s1 == a[1] + b[1] + (s2 \div Base)
    IN  <<s1, s2 % Base, s3 % Base, s4 % Base, s5 % Base>>

\* exact difference a - b of two fixed-point numbers, a >= b
SubRaw(a, b) ==
    LET d5 == a[5] - b[5]
        d4 == a[4] - b[4] - (IF d5 < 0 THEN 1 ELSE 0)
        d3 == a[3] - b[3] - (IF d4 < 0 THEN 1 ELSE 0)
        d2 == a[2] - b[2] - (IF d3 < 0 THEN 1 ELSE 0)
        d1 == a[1] - b[1] - (IF d2 < 0 THEN 1 ELSE 0)
    IN  <<d1, (d2 + Base) % Base, (d3 + Base) % Base,
          (d4 + Base) % Base, (d5 + Base) % Base>>

\* a < b
DLess(a, b) ==
    \E k \in 1..5 : a[k] < b[k] /\ \A j \in 1..(k - 1) : a[j] = b[j]

\* round an exact result half-even to Prec significant digits: a value with
\* d integer digits keeps Prec - d fractional digits
DRound(x) ==
    LET m    == Pow10(NumDigits(x[1]))
        r    == x[5] % m
        kept == <<x[1], x[2], x[3], x[4], x[5] - r>>
        odd  == (x[5] \div m) % 2 = 1
        up   == 2 * r > m \/ (2 * r = m /\ odd)
    IN  IF up THEN AddRaw(kept, <<0, 0, 0, 0, m>>) ELSE kept

\* Decimal + Decimal
DAdd(a, b) == DRound(AddRaw(a, b))

\* k further quotient digits of rem / d: <<digits as a number, remainder>>
RECURSIVE LongDiv(_, _, _, _)
LongDiv(rem, d, k, acc) ==
    IF k = 0 THEN <<acc, rem>>
    ELSE LongDiv((rem * 10) % d, d, k - 1, acc * 10 + ((rem * 10) \div d))

\* Decimal(n) / d for ints n >= 0, d > 0, correctly rounded
DDivInt(n, d) ==
    LET ip   == n \div d
        l1   == LongDiv(n % d, d, LimbDigits, 0)
        l2   == LongDiv(l1[2], d, LimbDigits, 0)
        l3   == LongDiv(l2[2], d, LimbDigits, 0)
        l4   == LongDiv(l3[2], d, LimbDigits, 0)
        rem  == l4[2]
        m    == Pow10(NumDigits(ip))
        r    == l4[1] % m
        kept == <<ip, l1[1], l2[1], l3[1], l4[1] - r>>
        odd  == (l4[1] \div m) % 2 = 1
        up   == IF m = 1
                THEN 2 * rem > d \/ (2 * rem = d /\ odd)
                ELSE 2 * r > m \/ (2 * r = m /\ (rem > 0 \/ odd))
    IN  IF up THEN AddRaw(kept, <<0, 0, 0, 0, m>>) ELSE kept

\* int k * Decimal x
DMulInt(k, x) ==
    LET p5 == k * x[5]
        p4 == k * x[4] + (p5 \div Base)
        p3 == k * x[3] + (p4 \div Base)
        p2 == k * x[2] + (p3 \div Base)
        p1 == k * x[1] + (p2 \div Base)
    IN  DRound(<<p1, p2 % Base, p3 % Base, p4 % Base, p5 % Base>>)

\* signed Decimal a - b
DSub(a, b) ==
    IF DLess(a, b)
    THEN [neg |-> TRUE, mag |-> DRound(SubRaw(b, a))]
    ELSE [neg |-> FALSE, mag |-> DRound(SubRaw(a, b))]

\* signed value of a non-negative int
SInt(n) == [neg |-> FALSE, mag |-> FromInt(n)]

\* x < y on signed Decimals
SLess(x, y) ==
    IF x.neg
    THEN IF y.neg THEN DLess(y.mag, x.mag) ELSE TRUE
    ELSE IF y.neg THEN FALSE ELSE DLess(x.mag, y.mag)

SLeq(x, y) == ~SLess(y, x)

\* sum(list): left fold from 0, each addition rounded
RECURSIVE sum(_)
sum(s) ==
    IF s = <<>> THEN DZero
    ELSE DAdd(sum(SubSeq(s, 1, Len(s) - 1)), s[Len(s)])

(***************************************************************************)
(* Battery                                                                 *)
(***************************************************************************)
BatteryState == {"CHARGING", "DISCHARGING", "IDLE"}

\* GridBattery(): 5000 kWh, 2500 kW, Idle, histories [5000] and [0]
GridBattery ==
    [energy_capacity |-> 5000, power_capacity |-> 2500, state |-> "IDLE",
     battery_inputs |-> <<FromInt(5000)>>, battery_outputs |-> <<FromInt(0)>>]

\* a Battery variant built like GridBattery with the default (empty)
\* histories of Battery.__init__
NewBattery(e, p) ==
    [energy_capacity |-> e, power_capacity |-> p, state |-> "IDLE",
     battery_inputs |-> <<>>, battery_outputs |-> <<>>]

\* the battery variants of the single-battery runs
Variants ==
    {GridBattery, NewBattery(7, 140), NewBattery(125, 2500), NewBattery(30, 600)}

\* the battery variants a site is built from
SiteVariants == {GridBattery, NewBattery(7, 140)}

current_capacity(b) == DSub(sum(b.battery_inputs), sum(b.battery_outputs))

storage_duration(b) == DDivInt(b.energy_capacity, b.power_capacity)

NoCall == [name |-> "none", battery |-> 0, pre |-> "IDLE", raised |-> "none"]

Called(n, i, r) ==
    [name |-> n, battery |-> i, pre |-> batteries[i].state, raised |-> r]

\* charge() without the full check
charge_Unchecked(i) ==
    /\ call' = Called("charge", i, "none")
    /\ batteries' = [batteries EXCEPT ![i].state = "CHARGING"]
    /\ UNCHANGED <<created, result>>

charge(i) ==
    LET b == batteries[i] IN
    /\ IF current_capacity(b) = SInt(b.energy_capacity)
       THEN /\ call' = Called("charge", i, "BatteryFullError")
            /\ batteries' = batteries
       ELSE /\ call' = Called("charge", i, "none")
            /\ batteries' = [batteries EXCEPT ![i].state = "CHARGING"]
    /\ UNCHANGED <<created, result>>

\* idle() that also writes a zero entry into the input history
idle_Recording(i) ==
    /\ call' = Called("idle", i, "none")
    /\ batteries' = [batteries EXCEPT ![i].state = "IDLE",
                                      ![i].battery_inputs = Append(@, DZero)]
    /\ UNCHANGED <<created, result>>

idle(i) ==
    /\ call' = Called("idle", i, "none")
    /\ batteries' = [batteries EXCEPT ![i].state = "IDLE"]
    /\ UNCHANGED <<created, result>>

\* discharge() without the empty check
discharge_Unchecked(i) ==
    /\ call' = Called("discharge", i, "none")
    /\ batteries' = [batteries EXCEPT ![i].state = "DISCHARGING"]
    /\ UNCHANGED <<created, result>>

\* discharge() that only an Idle battery obeys
discharge_FromIdle(i) ==
    LET b == batteries[i] IN
    /\ IF current_capacity(b) = SInt(0)
       THEN /\ call' = Called("discharge", i, "BatteryEmptyError")
            /\ batteries' = batteries
       ELSE /\ call' = Called("discharge", i, "none")
            /\ batteries' = IF b.state = "IDLE"
                            THEN [batteries EXCEPT ![i].state = "DISCHARGING"]
                            ELSE batteries
    /\ UNCHANGED <<created, result>>

discharge(i) ==
    LET b == batteries[i] IN
    /\ IF current_capacity(b) = SInt(0)
       THEN /\ call' = Called("discharge", i, "BatteryEmptyError")
            /\ batteries' = batteries
       ELSE /\ call' = Called("discharge", i, "none")
            /\ batteries' = [batteries EXCEPT ![i].state = "DISCHARGING"]
    /\ UNCHANGED <<created, result>>

\* entries increment() has appended to battery i since its construction
Appended(i) ==
    (Len(batteries[i].battery_inputs) - Len(created[i].battery_inputs))
        + (Len(batteries[i].battery_outputs) - Len(created[i].battery_outputs))

RECURSIVE TotalAppended(_)
TotalAppended(n) == IF n = 0 THEN 0 ELSE TotalAppended(n - 1) + Appended(n)

TickBudget(i) ==
    IF Len(batteries) = 1
    THEN Appended(i) < MaxTicks
    ELSE TotalAppended(Len(batteries)) < MaxSiteTicks

\* increment() appending a whole hour of energy per tick
increment_PerHour(i) ==
    LET b == batteries[i]
        q == FromInt(b.power_capacity)
    IN
    /\ b.state = "IDLE" \/ TickBudget(i)
    /\ call' = Called("increment", i, "none")
    /\ batteries' =
         IF b.state = "CHARGING"
         THEN [batteries EXCEPT ![i].battery_inputs = Append(@, q)]
         ELSE IF b.state = "DISCHARGING"
         THEN [batteries EXCEPT ![i].battery_outputs = Append(@, q)]
         ELSE batteries
    /\ UNCHANGED <<created, result>>

\* increment() treating every battery that is not Charging as Discharging
increment_NoIdle(i) ==
    LET b == batteries[i]
        q == DDivInt(b.power_capacity, 60)
    IN
    /\ b.state = "IDLE" \/ TickBudget(i)
    /\ call' = Called("increment", i, "none")
    /\ batteries' =
         IF b.state = "CHARGING"
         THEN [batteries EXCEPT ![i].battery_inputs = Append(@, q)]
         ELSE [batteries EXCEPT ![i].battery_outputs = Append(@, q)]
    /\ UNCHANGED <<created, result>>

\* increment() that sets a Charging battery Idle on the tick that fills it
increment_AutoStop(i) ==
    LET b == batteries[i]
        q == DDivInt(b.power_capacity, 60)
        charged == [b EXCEPT !.battery_inputs = Append(@, q)]
    IN
    /\ b.state = "IDLE" \/ TickBudget(i)
    /\ call' = Called("increment", i, "none")
    /\ batteries' =
         IF b.state = "CHARGING"
         THEN [batteries EXCEPT ![i] =
                 IF current_capacity(charged) = SInt(b.energy_capacity)
                 THEN [charged EXCEPT !.state = "IDLE"]
                 ELSE charged]
         ELSE IF b.state = "DISCHARGING"
         THEN [batteries EXCEPT ![i].battery_outputs = Append(@, q)]
         ELSE batteries
    /\ UNCHANGED <<created, result>>

\* increment() that writes over the newest input entry instead of appending
increment_Overwrite(i) ==
    LET b == batteries[i]
        q == DDivInt(b.power_capacity, 60)
    IN
    /\ b.state = "IDLE" \/ TickBudget(i)
    /\ call' = Called("increment", i, "none")
    /\ batteries' =
         IF b.state = "CHARGING"
         THEN [batteries EXCEPT ![i].battery_inputs =
                 IF @ = <<>> THEN <<q>>
                 ELSE Append(SubSeq(@, 1, Len(@) - 1), q)]
         ELSE IF b.state = "DISCHARGING"
         THEN [batteries EXCEPT ![i].battery_outputs = Append(@, q)]
         ELSE batteries
    /\ UNCHANGED <<created, result>>

increment(i) ==
    LET b == batteries[i]
        q == DDivInt(b.power_capacity, 60)
    IN
    /\ b.state = "IDLE" \/ TickBudget(i)
    /\ call' = Called("increment", i, "none")
    /\ batteries' =
         IF b.state = "CHARGING"
         THEN [batteries EXCEPT ![i].battery_inputs = Append(@, q)]
         ELSE IF b.state = "DISCHARGING"
         THEN [batteries EXCEPT ![i].battery_outputs = Append(@, q)]
         ELSE batteries
    /\ UNCHANGED <<created, result>>

(***************************************************************************)
(* LowestToHighestChargingStrategy                                         *)
(***************************************************************************)
\* requested rates; the strategy's code never reads the rate
Rates == {1000, 6000}

StrategyCall(n, r) == [name |-> n, battery |-> 0, pre |-> "IDLE", raised |-> r]

\* index of the first element of a non-empty set of list positions
First(S) == CHOOSE i \in S : \A j \in S : i <= j

determine_charge_battery(charge_rate) ==
    LET charges == {current_capacity(batteries[i]) :
                      i \in {j \in DOMAIN batteries :
                                batteries[j].state # "CHARGING"}}
    IN
    /\ IF charges = {}
       THEN /\ call' = StrategyCall("determine_charge_battery", "ValueError")
            /\ result' = 0
       ELSE LET lowest_charge == CHOOSE c \in charges :
                                   \A d \in charges : SLeq(c, d)
                eligible_batteries ==
                    {i \in DOMAIN batteries :
                       current_capacity(batteries[i]) = lowest_charge}
            IN  /\ call' = StrategyCall("determine_charge_battery", "none")
                /\ result' = First(eligible_batteries)
    /\ UNCHANGED <<batteries, created>>

determine_discharge_battery(discharge_rate) ==
    LET charges == {current_capacity(batteries[i]) :
                      i \in {j \in DOMAIN batteries :
                                batteries[j].state # "DISCHARGING"}}
    IN
    /\ IF charges = {}
       THEN /\ call' = StrategyCall("determine_discharge_battery", "ValueError")
            /\ result' = 0
       ELSE LET highest_charge == CHOOSE c \in charges :
                                    \A d \in charges : SLeq(d, c)
                eligible_batteries ==
                    {i \in DOMAIN batteries :
                       current_capacity(batteries[i]) = highest_charge}
            IN  /\ call' = StrategyCall("determine_discharge_battery", "none")
                /\ result' = First(eligible_batteries)
    /\ UNCHANGED <<batteries, created>>

\* what a strategy call hands back: the one battery it returned, if any
Selection(r) == IF r = 0 THEN {} ELSE {r}

\* the strategy's return value carries no partial-fulfillment indication
partial_fulfillment == FALSE

(***************************************************************************)
(* RandomChargingStrategy                                                  *)
(***************************************************************************)
\* the list positions 1..n of the battery list
Positions == [k \in 1..Len(batteries) |-> k]

\* [battery for battery in batteries if battery.state != target]
NotInState(target) ==
    SelectSeq(Positions, LAMBDA i : batteries[i].state # target)

\* randint(0, len(eligible_batteries)) draws from 0..len inclusive; indexing
\* the list at len raises IndexError
Random_determine_charge_battery ==
    LET eligible_batteries == NotInState("CHARGING") IN
    \E draw \in 0..Len(eligible_batteries) :
        /\ IF draw < Len(eligible_batteries)
           THEN /\ call' = StrategyCall("Random_determine_charge_battery",
                                        "none")
                /\ result' = eligible_batteries[draw + 1]
           ELSE /\ call' = StrategyCall("Random_determine_charge_battery",
                                        "IndexError")
                /\ result' = 0
        /\ UNCHANGED <<batteries, created>>

Random_determine_discharge_battery ==
    LET eligible_batteries == NotInState("DISCHARGING") IN
    \E draw \in 0..Len(eligible_batteries) :
        /\ IF draw < Len(eligible_batteries)
           THEN /\ call' = StrategyCall("Random_determine_discharge_battery",
                                        "none")
                /\ result' = eligible_batteries[draw + 1]
           ELSE /\ call' = StrategyCall("Random_determine_discharge_battery",
                                        "IndexError")
                /\ result' = 0
        /\ UNCHANGED <<batteries, created>>

(***************************************************************************)
(* One battery driven by any sequence of commands and ticks                *)
(***************************************************************************)
Init ==
    /\ batteries \in {<<v>> : v \in Variants}
    /\ created = batteries
    /\ call = NoCall
    /\ result = 0

Next ==
    \E i \in 1..Len(batteries) :
        \/ charge(i)
        \/ discharge(i)
        \/ idle(i)
        \/ increment(i)

Spec == Init /\ [][Next]_vars

(***************************************************************************)
(* A list of batteries, each commanded and ticked on its own, with the     *)
(* strategy consulted at any point                                         *)
(***************************************************************************)
RECURSIVE Lists(_)
Lists(n) ==
    IF n = 0 THEN {<<>>}
    ELSE {Append(l, v) : l \in Lists(n - 1), v \in SiteVariants}

InitSite ==
    /\ batteries \in UNION {Lists(n) : n \in 2..MaxBatteries}
    /\ created = batteries
    /\ call = NoCall
    /\ result = 0

NextSite ==
    \/ \E i \in 1..Len(batteries) :
          \/ charge(i)
          \/ discharge(i)
          \/ idle(i)
          \/ increment(i)
    \/ \E rate \in Rates : determine_charge_battery(rate)
    \/ \E rate \in Rates : determine_discharge_battery(rate)

SpecSite == InitSite /\ [][NextSite]_vars

(***************************************************************************)
(* A list of batteries with both strategies consulted at any point         *)
(***************************************************************************)
NextStrategies ==
    \/ \E i \in 1..Len(batteries) :
          \/ charge(i)
          \/ discharge(i)
          \/ idle(i)
          \/ increment(i)
    \/ \E rate \in Rates : determine_charge_battery(rate)
    \/ \E rate \in Rates : determine_discharge_battery(rate)
    \/ Random_determine_charge_battery
    \/ Random_determine_discharge_battery

SpecStrategies == InitSite /\ [][NextStrategies]_vars

(***************************************************************************)
(* Site                                                                    *)
(***************************************************************************)
SiteCall(n) == [name |-> n, battery |-> 0, pre |-> "IDLE", raised |-> "none"]

\* Site.charge(rate): the method body is its docstring only
Site_charge(rate) ==
    /\ call' = SiteCall("Site.charge")
    /\ UNCHANGED <<batteries, created, result>>

\* Site.state with Charging taking precedence wherever it occurs in the list
Site_state_ChargingWins ==
    IF \E i \in DOMAIN batteries : batteries[i].state = "CHARGING"
    THEN "CHARGING"
    ELSE IF \E i \in DOMAIN batteries : batteries[i].state = "DISCHARGING"
    THEN "DISCHARGING"
    ELSE "IDLE"

\* the for loop of Site.state from list position k on
RECURSIVE StateScan(_)
StateScan(k) ==
    IF k > Len(batteries) THEN "IDLE"
    ELSE IF batteries[k].state = "CHARGING" THEN "CHARGING"
    ELSE IF batteries[k].state = "DISCHARGING" THEN "DISCHARGING"
    ELSE StateScan(k + 1)

Site_state == StateScan(1)

\* length of the shortest / longest inputs history of the site
ShortestInputs ==
    CHOOSE n \in {Len(batteries[i].battery_inputs) : i \in DOMAIN batteries} :
        \A i \in DOMAIN batteries : n <= Len(batteries[i].battery_inputs)

LongestInputs ==
    CHOOSE n \in {Len(batteries[i].battery_inputs) : i \in DOMAIN batteries} :
        \A i \in DOMAIN batteries : n >= Len(batteries[i].battery_inputs)

\* Site.power_input: zip stops at the shortest history; each tuple is summed
Site_power_input ==
    [k \in 1..ShortestInputs |->
        sum([i \in 1..Len(batteries) |-> batteries[i].battery_inputs[k]])]

\* Battery.increment as a function of the battery
Incremented(b) ==
    IF b.state = "CHARGING"
    THEN [b EXCEPT !.battery_inputs =
                     Append(@, DDivInt(b.power_capacity, 60))]
    ELSE IF b.state = "DISCHARGING"
    THEN [b EXCEPT !.battery_outputs =
                     Append(@, DDivInt(b.power_capacity, 60))]
    ELSE b

NonIdle == {i \in DOMAIN batteries : batteries[i].state # "IDLE"}

\* one tick of the site: increment() called once on every battery
Tick ==
    /\ NonIdle = {}
         \/ TotalAppended(Len(batteries)) + Cardinality(NonIdle) <= MaxSiteTicks
    /\ call' = SiteCall("tick")
    /\ batteries' = [i \in 1..Len(batteries) |-> Incremented(batteries[i])]
    /\ UNCHANGED <<created, result>>

(***************************************************************************)
(* A site run in ticks: commands first, then increment() on every battery  *)
(***************************************************************************)
NextSiteRun ==
    \/ \E i \in 1..Len(batteries) :
          \/ charge(i)
          \/ discharge(i)
          \/ idle(i)
    \/ \E rate \in Rates : Site_charge(rate)
    \/ Tick

SpecSiteRun == InitSite /\ [][NextSiteRun]_vars

(***************************************************************************)
(* One battery whose capacities are set again through the property setters *)
(***************************************************************************)
\* values handed to the capacity setters
CapacityValues == {-1, 0, 60}

\* Battery.energy_capacity = value
set_energy_capacity(i, value) ==
    /\ IF value < 0
       THEN /\ call' = Called("energy_capacity.setter", i, "ValueError")
            /\ batteries' = batteries
       ELSE /\ call' = Called("energy_capacity.setter", i, "none")
            /\ batteries' = [batteries EXCEPT ![i].energy_capacity = value]
    /\ UNCHANGED <<created, result>>

\* Battery.power_capacity = value
set_power_capacity(i, value) ==
    /\ IF value < 0
       THEN /\ call' = Called("power_capacity.setter", i, "ValueError")
            /\ batteries' = batteries
       ELSE /\ call' = Called("power_capacity.setter", i, "none")
            /\ batteries' = [batteries EXCEPT ![i].power_capacity = value]
    /\ UNCHANGED <<created, result>>

NextSetters ==
    \E i \in 1..Len(batteries) :
        \/ charge(i)
        \/ discharge(i)
        \/ idle(i)
        \/ increment(i)
        \/ \E value \in CapacityValues : set_energy_capacity(i, value)
        \/ \E value \in CapacityValues : set_power_capacity(i, value)

SpecSetters == Init /\ [][NextSetters]_vars

(***************************************************************************)
(* Properties                                                              *)
(***************************************************************************)
Commands == {"charge", "discharge", "idle"}

\* the battery the last call was made on
Target == batteries[call.battery]

\* C1: in every reachable state of a battery driven by charge(), discharge(),
\* idle() and increment(), 0 <= current_capacity <= energy_capacity.
C1_CapacityWithinBounds ==
    \A i \in DOMAIN batteries :
        /\ SLeq(SInt(0), current_capacity(batteries[i]))
        /\ SLeq(current_capacity(batteries[i]),
                SInt(batteries[i].energy_capacity))

\* C2: charge() on a battery whose current_capacity equals energy_capacity
\* raises BatteryFullError and leaves state, inputs and outputs as they were,
\* whatever the battery's state.
C2_ChargeFullRaises ==
    [][\A i \in DOMAIN batteries :
         (/\ call'.name = "charge"
          /\ call'.battery = i
          /\ current_capacity(batteries[i]) = SInt(batteries[i].energy_capacity))
         => (/\ call'.raised = "BatteryFullError"
             /\ batteries'[i] = batteries[i])]_vars

\* a Charging battery that is full has refused charge()
C2_Witness ==
    /\ call.name = "charge"
    /\ call.raised = "BatteryFullError"
    /\ call.pre = "CHARGING"
    /\ Target.state = "CHARGING"
    /\ Appended(call.battery) > 0

\* C3: discharge() on a battery whose current_capacity is 0 raises
\* BatteryEmptyError and leaves state, inputs and outputs as they were,
\* whatever the battery's state.
C3_DischargeEmptyRaises ==
    [][\A i \in DOMAIN batteries :
         (/\ call'.name = "discharge"
          /\ call'.battery = i
          /\ current_capacity(batteries[i]) = SInt(0))
         => (/\ call'.raised = "BatteryEmptyError"
             /\ batteries'[i] = batteries[i])]_vars

\* a Charging battery that is empty has refused discharge()
C3_Witness ==
    /\ call.name = "discharge"
    /\ call.raised = "BatteryEmptyError"
    /\ call.pre = "CHARGING"
    /\ Target.state = "CHARGING"

\* the full GridBattery after discharge() and one increment()
C4_Scenario ==
    /\ batteries[1].energy_capacity = 5000
    /\ batteries[1].power_capacity = 2500
    /\ batteries[1].battery_inputs = <<FromInt(5000)>>
    /\ Len(batteries[1].battery_outputs) = 2
    /\ call.name = "increment"
    /\ call.pre = "DISCHARGING"

\* C4: one increment() on a Charging battery appends power_capacity/60 to
\* inputs and leaves outputs alone, on a Discharging battery it appends
\* power_capacity/60 to outputs and leaves inputs alone; the full 5000/2500
\* battery after discharge() and one increment() holds 5000 - 2500/60
\* (4958.333333333333333333333333).
C4_IncrementMovesOneTick ==
    /\ [](C4_Scenario =>
            /\ current_capacity(batteries[1])
                 = DSub(FromInt(5000), DDivInt(2500, 60))
            /\ current_capacity(batteries[1])
                 = [neg |-> FALSE,
                    mag |-> <<4958, 3333333, 3333333, 3333333, 3330000>>])
    /\ [][\A i \in DOMAIN batteries :
            (call'.name = "increment" /\ call'.battery = i) =>
              LET b == batteries[i]
                  a == batteries'[i]
                  q == DDivInt(b.power_capacity, 60)
              IN  /\ b.state = "CHARGING" =>
                       /\ a.battery_inputs = Append(b.battery_inputs, q)
                       /\ a.battery_outputs = b.battery_outputs
                  /\ b.state = "DISCHARGING" =>
                       /\ a.battery_outputs = Append(b.battery_outputs, q)
                       /\ a.battery_inputs = b.battery_inputs]_vars

C4_Witness == C4_Scenario /\ Target.state = "DISCHARGING"

\* C5: increment() on an Idle battery changes neither inputs nor outputs, and
\* so not current_capacity, however many Idle ticks follow one another.
C5_IdleTickMovesNothing ==
    [][\A i \in DOMAIN batteries :
         (call'.name = "increment" /\ call'.battery = i
            /\ batteries[i].state = "IDLE")
         => (/\ batteries'[i].battery_inputs = batteries[i].battery_inputs
             /\ batteries'[i].battery_outputs = batteries[i].battery_outputs
             /\ current_capacity(batteries'[i])
                  = current_capacity(batteries[i]))]_vars

\* an Idle battery holding some charge history has been ticked
C5_Witness ==
    /\ call.name = "increment"
    /\ call.pre = "IDLE"
    /\ Target.state = "IDLE"
    /\ Appended(call.battery) > 0

\* C6: charge(), discharge() and idle(), succeeding or failing, change no
\* battery's inputs, outputs or current_capacity; energy moves in increment()
\* only.
C6_CommandsMoveNoEnergy ==
    [][call'.name \in Commands =>
         \A i \in DOMAIN batteries :
            /\ batteries'[i].battery_inputs = batteries[i].battery_inputs
            /\ batteries'[i].battery_outputs = batteries[i].battery_outputs
            /\ current_capacity(batteries'[i])
                 = current_capacity(batteries[i])]_vars

\* a command has changed the state of a battery that has been ticked
C6_Witness ==
    /\ call.name \in Commands
    /\ call.raised = "none"
    /\ call.pre # Target.state
    /\ Appended(call.battery) > 0

\* C7: from Idle, Charging and Discharging alike, charge() on a battery that
\* is not full leaves it Charging, discharge() on a battery that is not empty
\* leaves it Discharging, idle() leaves it Idle, none of them raising; a
\* battery starts Idle.
C7_Transitions ==
    /\ \A i \in DOMAIN batteries : batteries[i].state = "IDLE"
    /\ [][\A i \in DOMAIN batteries :
            LET b == batteries[i]
                a == batteries'[i]
            IN
            /\ (call'.name = "charge" /\ call'.battery = i
                  /\ current_capacity(b) # SInt(b.energy_capacity))
               => (call'.raised = "none" /\ a.state = "CHARGING")
            /\ (call'.name = "discharge" /\ call'.battery = i
                  /\ current_capacity(b) # SInt(0))
               => (call'.raised = "none" /\ a.state = "DISCHARGING")
            /\ (call'.name = "idle" /\ call'.battery = i)
               => (call'.raised = "none" /\ a.state = "IDLE")]_vars

\* a Charging battery has obeyed discharge()
C7_Witness ==
    /\ call.name = "discharge"
    /\ call.pre = "CHARGING"
    /\ call.raised = "none"
    /\ Target.state = "DISCHARGING"

\* C8: a battery that starts empty, is told to charge() once and is then
\* incremented 60 * storage_duration times with no other command has
\* current_capacity = energy_capacity.
C8_RoundTrip ==
    \A i \in DOMAIN batteries :
        LET b == batteries[i] IN
        (/\ created[i].battery_inputs = <<>>
         /\ created[i].battery_outputs = <<>>
         /\ b.battery_outputs = <<>>
         /\ b.state = "CHARGING"
         /\ call.name = "increment"
         /\ call.battery = i
         /\ FromInt(Len(b.battery_inputs)) = DMulInt(60, storage_duration(b)))
        => current_capacity(b) = SInt(b.energy_capacity)

\* the batteries of the list a strategy may pick for the given target state
Eligible(target) == {i \in DOMAIN batteries : batteries[i].state # target}

\* C9: given a list with a battery that is not Charging, LowestToHighest
\* determine_charge_battery returns a battery that is not Charging, whose
\* current_capacity is the least among those not Charging, and the earliest
\* such battery of the list.
C9_ChargePick ==
    (call.name = "determine_charge_battery" /\ Eligible("CHARGING") # {}) =>
        /\ call.raised = "none"
        /\ result \in Eligible("CHARGING")
        /\ \A j \in Eligible("CHARGING") :
              /\ SLeq(current_capacity(batteries[result]),
                      current_capacity(batteries[j]))
              /\ current_capacity(batteries[j])
                   = current_capacity(batteries[result]) => result <= j

\* C10: given a list with a battery that is not Discharging, LowestToHighest
\* determine_discharge_battery returns a battery that is not Discharging,
\* whose current_capacity is the greatest among those not Discharging, and
\* the earliest such battery of the list.
C10_DischargePick ==
    (call.name = "determine_discharge_battery"
       /\ Eligible("DISCHARGING") # {}) =>
        /\ call.raised = "none"
        /\ result \in Eligible("DISCHARGING")
        /\ \A j \in Eligible("DISCHARGING") :
              /\ SLeq(current_capacity(batteries[j]),
                      current_capacity(batteries[result]))
              /\ current_capacity(batteries[j])
                   = current_capacity(batteries[result]) => result <= j

ChargeSelectors ==
    {"determine_charge_battery", "Random_determine_charge_battery"}

DischargeSelectors ==
    {"determine_discharge_battery", "Random_determine_discharge_battery"}

\* C11: when every battery is already in the target state, the strategy call
\* (LowestToHighest or Random) fails with EligibilityError and changes no
\* battery's state, inputs or outputs.
C11_NoneEligibleRaises ==
    [][/\ (call'.name \in ChargeSelectors /\ Eligible("CHARGING") = {})
          => (call'.raised = "EligibilityError" /\ batteries' = batteries)
       /\ (call'.name \in DischargeSelectors /\ Eligible("DISCHARGING") = {})
          => (call'.raised = "EligibilityError" /\ batteries' = batteries)]_vars

\* C12: Random strategy: with at least one battery not in the target state,
\* the call succeeds for every outcome of the draw and returns a battery that
\* is not in the target state.
C12_RandomPicksEligible ==
    /\ (call.name = "Random_determine_charge_battery"
          /\ Eligible("CHARGING") # {})
       => (call.raised = "none" /\ result \in Eligible("CHARGING"))
    /\ (call.name = "Random_determine_discharge_battery"
          /\ Eligible("DISCHARGING") # {})
       => (call.raised = "none" /\ result \in Eligible("DISCHARGING"))

\* summed power_capacity of the batteries at the positions in S
RECURSIVE SummedPower(_)
SummedPower(S) ==
    IF S = {} THEN 0
    ELSE LET i == CHOOSE j \in S : TRUE
         IN  batteries[i].power_capacity + SummedPower(S \ {i})

\* C13: when the requested rate exceeds the power_capacity of the best
\* eligible battery, LowestToHighest returns eligible batteries until their
\* summed power_capacity reaches the rate, or all eligible batteries together
\* with a partial-fulfillment indication.
C13_MultiBatteryFulfillment ==
    [][\A rate \in Rates :
         /\ (determine_discharge_battery(rate) /\ call'.raised = "none"
               /\ rate > batteries[result'].power_capacity)
            => \/ SummedPower(Selection(result')) >= rate
               \/ /\ Eligible("DISCHARGING") \subseteq Selection(result')
                  /\ partial_fulfillment
         /\ (determine_charge_battery(rate) /\ call'.raised = "none"
               /\ rate > batteries[result'].power_capacity)
            => \/ SummedPower(Selection(result')) >= rate
               \/ /\ Eligible("CHARGING") \subseteq Selection(result')
                  /\ partial_fulfillment]_vars

\* C14: Site.charge(rate) on a site with a battery that is neither Charging
\* nor full leaves at least one battery of the site Charging.
C14_SiteChargeStartsCharging ==
    [][(/\ call'.name = "Site.charge"
        /\ \E i \in DOMAIN batteries :
              /\ batteries[i].state # "CHARGING"
              /\ current_capacity(batteries[i])
                   # SInt(batteries[i].energy_capacity))
       => \E i \in DOMAIN batteries : batteries'[i].state = "CHARGING"]_vars

\* C15: after ticks in which increment() is called once on every battery,
\* all batteries of the site have inputs of one length and outputs of one
\* length, whatever their states were (stated for sites whose batteries were
\* constructed with histories of equal lengths).
C15_TickAlignment ==
    (/\ call.name = "tick"
     /\ \A i, j \in DOMAIN created :
           /\ Len(created[i].battery_inputs) = Len(created[j].battery_inputs)
           /\ Len(created[i].battery_outputs) = Len(created[j].battery_outputs))
    => \A i, j \in DOMAIN batteries :
           /\ Len(batteries[i].battery_inputs) = Len(batteries[j].battery_inputs)
           /\ Len(batteries[i].battery_outputs)
                = Len(batteries[j].battery_outputs)

\* sum of all entries of all batteries' inputs from list position k on
RECURSIVE AllInputs(_)
AllInputs(k) ==
    IF k > Len(batteries) THEN DZero
    ELSE DAdd(sum(batteries[k].battery_inputs), AllInputs(k + 1))

\* C16: in every reachable site state, power_input is as long as the longest
\* inputs history of the site and its entries sum to the sum of all entries
\* of all batteries' inputs: nothing is truncated away.
C16_PowerInputDropsNothing ==
    /\ Len(Site_power_input) = LongestInputs
    /\ sum(Site_power_input) = AllInputs(1)

C18_CapacitiesPositive ==
    /\ [](\A i \in DOMAIN batteries :
            /\ batteries[i].energy_capacity > 0
            /\ batteries[i].power_capacity > 0)
    /\ [][\A i \in DOMAIN batteries : \A value \in CapacityValues :
            ((set_energy_capacity(i, value) \/ set_power_capacity(i, value))
               /\ value <= 0)
            => (call'.raised = "ValueError" /\ batteries' = batteries)]_vars

\* C19: increment() never changes a battery's state: a battery stays Charging
\* (Discharging) through every increment(), the one that brings
\* current_capacity to energy_capacity (0) and those after it included, and
\* its state changes only in a charge(), discharge() or idle() that succeeds.
C19_IncrementKeepsState ==
    [][\A i \in DOMAIN batteries :
         /\ call'.name = "increment"
            => batteries'[i].state = batteries[i].state
         /\ batteries'[i].state # batteries[i].state
            => (/\ call'.name \in Commands
                /\ call'.battery = i
                /\ call'.raised = "none")]_vars

\* a Charging battery has been ticked to exactly full and is still Charging
C19_Witness ==
    /\ call.name = "increment"
    /\ call.pre = "CHARGING"
    /\ Target.state = "CHARGING"
    /\ Appended(call.battery) > 0
    /\ current_capacity(Target) = SInt(Target.energy_capacity)

\* s is an initial segment of t
IsPrefix(s, t) == Len(s) <= Len(t) /\ SubSeq(t, 1, Len(s)) = s

\* C20: histories are append-only: every operation leaves the existing
\* entries of inputs and outputs in place; an increment() adds exactly one
\* entry to inputs when the battery is Charging, exactly one to outputs when
\* it is Discharging and none otherwise, and nothing else adds any, so that
\* the growth of inputs (outputs) counts the ticks spent Charging
\* (Discharging).
C20_AppendOnly ==
    [][\A i \in DOMAIN batteries :
         LET b == batteries[i]
             a == batteries'[i]
             ticked == call'.name = "increment" /\ call'.battery = i
         IN
         /\ IsPrefix(b.battery_inputs, a.battery_inputs)
         /\ IsPrefix(b.battery_outputs, a.battery_outputs)
         /\ Len(a.battery_inputs) = Len(b.battery_inputs)
              + (IF ticked /\ b.state = "CHARGING" THEN 1 ELSE 0)
         /\ Len(a.battery_outputs) = Len(b.battery_outputs)
              + (IF ticked /\ b.state = "DISCHARGING" THEN 1 ELSE 0)]_vars

\* a battery has been ticked while Charging, while Discharging and while Idle
C20_Witness ==
    /\ call.name = "increment"
    /\ call.pre = "IDLE"
    /\ Len(Target.battery_inputs)
         >= Len(created[call.battery].battery_inputs) + 2
    /\ Len(Target.battery_outputs)
         >= Len(created[call.battery].battery_outputs) + 1

====
